---- MODULE Spec2Model ----
(***************************************************************************)
(* The regression-kriging notebook (notebooks/practice-exercise-1.ipynb) as *)
(* a state machine.  The state is the working directory the load-data cell  *)
(* looks at, the kernel's namespace (one value per notebook variable), what *)
(* the last executed cell printed and raised, and the selected cell.  There *)
(* is one action per code cell.  Executing the selected cell selects the    *)
(* next one in document order, whether or not the cell raised; the user may *)
(* also go back to a cell that failed, or restart the kernel.               *)
(*                                                                         *)
(* A value is a record that says how the notebook obtained it: the call     *)
(* that made it and which rows its arguments held.  scikit-learn, PyKrige,  *)
(* GSTools and GeoPandas are third-party code the notebook only calls: what *)
(* a call computes is not modelled; a call either returns (the value        *)
(* records its arguments) or raises (the cell stops at that statement).  A  *)
(* mutating method that raises leaves its receiver "indeterminate".  A      *)
(* scaler's state is the record of the fit calls the notebook made on it.   *)
(***************************************************************************)
EXTENDS Naturals, Sequences, FiniteSets, TLC

VARIABLES cwd, ns, out, err, cursor

vars == <<cwd, ns, out, err, cursor>>

\* Entries of the working directory the load-data cell tests for.
DirName == "data-geoml"
ZipName == "data-geoml.zip"

\* Arguments of train_test_split in the split cell.
TestSize == "0.3"
RandomState == 4

\* Arguments of RegressionKriging in the constructor cell.
NClosestPoints == 10

Names ==
  { "DATA_PATH", "gdf", "data", "pos", "emp_v", "exp", "gdf_tmp", "X", "y",
    "X_train", "X_test", "pos_train", "pos_test", "y_train", "y_test",
    "scaler", "X_train_scaled", "X_test_scaled", "regr_rk", "m_rk",
    "y_rk_test_preds", "test_mse", "regr", "y_test_preds" }

\* A name the kernel has not bound.
Undef == [k |-> "undef"]

Defined(n, v) == n[v] # Undef

(***************************************************************************)
(* The load-data cell (lines 269-280; the practice-exercise notebook has    *)
(* the same cell at lines 32-43).                                           *)
(***************************************************************************)
\* The code cells in document order.  The pip and import cells (lines
\* 298-344) are taken to have run: the names they bind are modules.
Order ==
  << "load", "read", "explore", "xy", "vario", "plot", "fitvario", "split",
     "scale", "regr", "mrk", "fit", "predict", "eval", "baseline", "read2" >>

Selected(c) == cursor \in 1..Len(Order) /\ Order[cursor] = c

Prompt == "retry prompt"
DownloadOK == "Data download OK"

\* subprocess.run('wget ...'): run without check=True, so a failing wget
\* raises nothing; afterwards the archive is in the directory or it is not.
Wget(c) == {c, c \cup {ZipName}}

\* subprocess.run('unzip "data-geoml.zip"'): needs the archive; afterwards
\* the directory is there or (a broken or differently laid out archive) not.
Unzip(c) == IF ZipName \in c THEN {c, c \cup {DirName}} ELSE {c}

\* Lines 275-278: the message chosen after the download.
DownloadMessage(c) == IF ZipName \notin c THEN Prompt ELSE DownloadOK

LoadData ==
  /\ Selected("load")
  /\ \/ /\ DirName \in cwd
        /\ cwd' = cwd
        /\ out' = << >>
     \/ /\ DirName \notin cwd
        /\ \E c1 \in Wget(cwd) : \E c2 \in Unzip(c1) :
             /\ cwd' = c2
             /\ out' = << DownloadMessage(c2) >>
  /\ ns' = [ns EXCEPT !["DATA_PATH"] = [k |-> "path", of |-> "cwd"]]
  /\ err' = "none"
  /\ cursor' = cursor + 1

(***************************************************************************)
(* The other code cells, statement by statement.  For cell c and statement  *)
(* number i: NStmts(c) is the number of statements of the cell, Reads(c, i) *)
(* the names the statement uses, Stmt(c, i, n) the namespace after it ran   *)
(* on namespace n, CanRaise(c, i) whether it calls into a library,          *)
(* Broken(c, i, n) the namespace when that call raises, Prints(c, i) what   *)
(* it prints.                                                               *)
(***************************************************************************)
Cells ==
  { "read", "explore", "xy", "vario", "plot", "fitvario", "split", "scale",
    "regr", "mrk", "fit", "predict", "eval", "baseline", "read2" }

\* What a method that raised has left of its receiver.
Indeterminate == [k |-> "indeterminate"]

\* One side of train_test_split(X, pos, y, test_size=0.3, random_state=4):
\* every array of the one call is cut by that call, with the same arguments.
Part(v, side) ==
  [k |-> "part", of |-> v.k, rows |-> side,
   test_size |-> TestSize, random_state |-> RandomState]

\* StandardScaler().fit(v): a new scaler, fitted once, on v.
ScalerFit(v) == [k |-> "scaler", fitOn |-> v.rows, fits |-> 1]

\* scaler.transform(v): the receiver is read, the result is a new array.
Transform(sc, v) == [k |-> "scaled", rows |-> v.rows, by |-> sc.fitOn]

\* MLPRegressor(hidden_layer_sizes=(50,), random_state=4, ...), not trained.
NewMLP == [k |-> "mlp", fit |-> Undef]

NStmts(c) ==
  CASE c = "read"     -> 1
    [] c = "explore"  -> 1
    [] c = "xy"       -> 4
    [] c = "vario"    -> 1
    [] c = "plot"     -> 1
    [] c = "fitvario" -> 4
    [] c = "split"    -> 5
    [] c = "scale"    -> 3
    [] c = "regr"     -> 1
    [] c = "mrk"      -> 1
    [] c = "fit"      -> 1
    [] c = "predict"  -> 1
    [] c = "eval"     -> 3
    [] c = "baseline" -> 6
    [] c = "read2"    -> 1

Reads(c, i) ==
  CASE c = "read"     -> {"DATA_PATH"}
    [] c = "explore"  -> {"gdf"}
    [] c = "xy"       -> {"gdf"}
    [] c = "vario"    -> {"pos", "data"}
    [] c = "plot"     -> {"emp_v"}
    [] c = "fitvario" -> IF i = 1 THEN {}
                         ELSE IF i = 4 THEN {"exp"} ELSE {"exp", "emp_v"}
    [] c = "split"    -> CASE i \in {1, 2} -> {"gdf"}
                           [] i \in {3, 4} -> {"gdf_tmp"}
                           [] OTHER        -> {"X", "pos", "y"}
    [] c = "scale"    -> CASE i = 1 -> {"X_train"}
                           [] i = 2 -> {"scaler", "X_train"}
                           [] OTHER -> {"scaler", "X_test"}
    [] c = "regr"     -> {}
    [] c = "mrk"      -> {"regr_rk"}
    [] c = "fit"      -> {"m_rk", "X_train_scaled", "pos_train", "y_train"}
    [] c = "predict"  -> {"m_rk", "X_test_scaled", "pos_test"}
    [] c = "eval"     -> IF i = 1 THEN {"y_test", "y_rk_test_preds"}
                         ELSE {"test_mse"}
    [] c = "baseline" -> CASE i = 1 -> {}
                           [] i = 2 -> {"regr", "X_train_scaled", "y_train"}
                           [] i = 3 -> {"regr", "X_test_scaled"}
                           [] i = 4 -> {"y_test", "y_test_preds"}
                           [] OTHER -> {"test_mse"}
    [] c = "read2"    -> {"DATA_PATH"}

\* pandas label lookups: gdf.loc[:, ["x", "y"]] and gdf.drop(columns=[...,
\* "x", "y"]) need the two columns that only lines 454-455 add.
HasColumns(c, i, n) ==
  (c = "split" /\ i \in {1, 2}) => n["gdf"].xy = 2

\* Line 388.
ReadStmt(i, n) ==
  [n EXCEPT !["gdf"] = [k |-> "gdf", ds |-> "species", xy |-> 0]]

\* Lines 454-458.
XyStmt(i, n) ==
  CASE i = 1 -> [n EXCEPT !["gdf"].xy = IF @ = 0 THEN 1 ELSE @]
    [] i = 2 -> [n EXCEPT !["gdf"].xy = 2]
    [] i = 3 -> [n EXCEPT !["data"] =
                   [k |-> "field", ds |-> n["gdf"].ds, rows |-> "all"]]
    [] OTHER -> [n EXCEPT !["pos"] =
                   [k |-> "coords", ds |-> n["gdf"].ds, rows |-> "all",
                    T |-> TRUE]]

\* Line 480: the empirical variogram of `data` over `pos`.
VarioStmt(i, n) ==
  [n EXCEPT !["emp_v"] =
     [k |-> "emp_v", rows |-> n["data"].rows, T |-> n["pos"].T]]

\* Lines 529-535.
FitVarioStmt(i, n) ==
  CASE i = 1 -> [n EXCEPT !["exp"] = [k |-> "cov", fit |-> Undef]]
    [] i = 2 -> [n EXCEPT !["exp"] = [k |-> "cov", fit |-> n["emp_v"]]]
    [] OTHER -> n

\* Lines 569-578.
SplitStmt(i, n) ==
  CASE i = 1 -> [n EXCEPT !["pos"] =
                   [k |-> "coords", ds |-> n["gdf"].ds, rows |-> "all",
                    T |-> FALSE]]
    [] i = 2 -> [n EXCEPT !["gdf_tmp"] = [k |-> "frame", ds |-> n["gdf"].ds]]
    [] i = 3 -> [n EXCEPT !["X"] =
                   [k |-> "X", ds |-> n["gdf_tmp"].ds, rows |-> "all"]]
    [] i = 4 -> [n EXCEPT !["y"] =
                   [k |-> "y", ds |-> n["gdf_tmp"].ds, rows |-> "all"]]
    [] OTHER -> [n EXCEPT !["X_train"]   = Part(n["X"], "train"),
                          !["X_test"]    = Part(n["X"], "test"),
                          !["pos_train"] = Part(n["pos"], "train"),
                          !["pos_test"]  = Part(n["pos"], "test"),
                          !["y_train"]   = Part(n["y"], "train"),
                          !["y_test"]    = Part(n["y"], "test")]

\* Lines 596-598 with the test predictors scaled by fit_transform: the
\* scaler is fitted a second time, on the test rows.
ScaleStmtRefitOnTest(i, n) ==
  CASE i = 1 -> [n EXCEPT !["scaler"] = ScalerFit(n["X_train"])]
    [] i = 2 -> [n EXCEPT !["X_train_scaled"] =
                   Transform(n["scaler"], n["X_train"])]
    [] OTHER -> [n EXCEPT !["scaler"] =
                   [k |-> "scaler", fitOn |-> n["X_test"].rows, fits |-> 2],
                          !["X_test_scaled"] =
                   [k |-> "scaled", rows |-> n["X_test"].rows,
                    by |-> n["X_test"].rows]]

\* Lines 596-598.
ScaleStmt(i, n) ==
  CASE i = 1 -> [n EXCEPT !["scaler"] = ScalerFit(n["X_train"])]
    [] i = 2 -> [n EXCEPT !["X_train_scaled"] =
                   Transform(n["scaler"], n["X_train"])]
    [] OTHER -> [n EXCEPT !["X_test_scaled"] =
                   Transform(n["scaler"], n["X_test"])]

\* Line 618.
RegrStmt(i, n) == [n EXCEPT !["regr_rk"] = NewMLP]

\* variogram_model="exponential" (line 636): the variogram is named, to be
\* estimated by the model itself.
NamedVariogram == [k |-> "name", model |-> "exponential"]

\* Line 636 with the exploratory model `exp`, fitted to the variogram of the
\* full point set (lines 480, 529-530), handed to the constructor.
MrkStmtExploratoryVariogram(i, n) ==
  [n EXCEPT !["m_rk"] =
     [k |-> "rk", regression_model |-> "regr_rk",
      n_closest_points |-> NClosestPoints, variogram |-> n["exp"],
      state |-> "constructed", p |-> Undef, x |-> "none", y |-> "none"]]

\* Line 636.
MrkStmt(i, n) ==
  [n EXCEPT !["m_rk"] =
     [k |-> "rk", regression_model |-> "regr_rk",
      n_closest_points |-> NClosestPoints, variogram |-> NamedVariogram,
      state |-> "constructed", p |-> Undef, x |-> "none", y |-> "none"]]

\* Line 658 with the model fitted on every record: m_rk.fit(
\* scaler.transform(X), pos, y).
FitStmtOnAllRows(i, n) ==
  [n EXCEPT !["m_rk"] =
     [@ EXCEPT !.state = "fit returned",
               !.p = Transform(n["scaler"], n["X"]),
               !.x = n["pos"].rows,
               !.y = n["y"].rows]]

\* Line 658: m_rk.fit(X_train_scaled, pos_train, y_train) has returned.
FitStmt(i, n) ==
  [n EXCEPT !["m_rk"] =
     [@ EXCEPT !.state = "fit returned",
               !.p = n["X_train_scaled"],
               !.x = n["pos_train"].rows,
               !.y = n["y_train"].rows]]

\* Line 678.
PredictStmt(i, n) ==
  [n EXCEPT !["y_rk_test_preds"] =
     [k |-> "preds", model |-> "m_rk", fitted |-> n["m_rk"].state,
      p |-> n["X_test_scaled"], x |-> n["pos_test"].rows]]

\* Lines 696-698.
EvalStmt(i, n) ==
  IF i = 1
  THEN [n EXCEPT !["test_mse"] =
          [k |-> "mse", truth |-> n["y_test"].rows,
           preds |-> n["y_rk_test_preds"].model]]
  ELSE n

\* Lines 716-721: the plain MLPRegressor baseline.
BaselineStmt(i, n) ==
  CASE i = 1 -> [n EXCEPT !["regr"] = NewMLP]
    [] i = 2 -> [n EXCEPT !["regr"].fit =
                   [k |-> "fit", p |-> n["X_train_scaled"],
                    y |-> n["y_train"].rows]]
    [] i = 3 -> [n EXCEPT !["y_test_preds"] =
                   [k |-> "preds", model |-> "regr",
                    fitted |-> n["regr"].fit.k,
                    p |-> n["X_test_scaled"], x |-> "none"]]
    [] i = 4 -> [n EXCEPT !["test_mse"] =
                   [k |-> "mse", truth |-> n["y_test"].rows,
                    preds |-> n["y_test_preds"].model]]
    [] OTHER -> n

\* Lines 760-763.
Read2Stmt(i, n) ==
  [n EXCEPT !["gdf"] = [k |-> "gdf", ds |-> "lai", xy |-> 0]]

Stmt(c, i, n) ==
  CASE c = "read"     -> ReadStmt(i, n)
    [] c = "xy"       -> XyStmt(i, n)
    [] c = "vario"    -> VarioStmt(i, n)
    [] c = "fitvario" -> FitVarioStmt(i, n)
    [] c = "split"    -> SplitStmt(i, n)
    [] c = "scale"    -> ScaleStmt(i, n)
    [] c = "regr"     -> RegrStmt(i, n)
    [] c = "mrk"      -> MrkStmt(i, n)
    [] c = "fit"      -> FitStmt(i, n)
    [] c = "predict"  -> PredictStmt(i, n)
    [] c = "eval"     -> EvalStmt(i, n)
    [] c = "baseline" -> BaselineStmt(i, n)
    [] c = "read2"    -> Read2Stmt(i, n)
    [] OTHER          -> n

\* Statements that only bind a name or print cannot raise once their names
\* are bound; every other statement calls into a library.
CanRaise(c, i) ==
  ~ \/ c = "regr"
    \/ c = "fitvario" /\ i \in {1, 4}
    \/ c = "baseline" /\ i \in {1, 5, 6}
    \/ c = "eval" /\ i \in {2, 3}

\* The namespace after statement i of cell c raised: a method that raised
\* may have written to its receiver before it did.
Broken(c, i, n) ==
  CASE c = "fitvario" /\ i = 2 -> [n EXCEPT !["exp"].fit = Indeterminate]
    [] c = "fit"               -> [n EXCEPT !["m_rk"].state = "indeterminate"]
    [] c = "baseline" /\ i = 2  -> [n EXCEPT !["regr"].fit = Indeterminate]
    [] OTHER                    -> n

Prints(c, i) ==
  CASE c = "fitvario" /\ i = 4 -> << "nugget", "sill" >>
    [] c = "eval" /\ i = 2      -> << "MSE" >>
    [] c = "eval" /\ i = 3      -> << "RMSE" >>
    [] c = "baseline" /\ i = 5  -> << "MSE" >>
    [] c = "baseline" /\ i = 6  -> << "RMSE" >>
    [] OTHER                    -> << >>

(***************************************************************************)
(* Running a cell: its statements run in order; a statement that uses an    *)
(* unbound name raises NameError, a library call may raise (`stop` is the   *)
(* statement at which one does, NStmts(c) + 1 when none does), and the      *)
(* first exception ends the cell, the bindings made so far kept.            *)
(***************************************************************************)
RECURSIVE Exec(_, _, _, _, _)
Exec(c, i, n, o, stop) ==
  IF i > NStmts(c) THEN [ns |-> n, out |-> o, err |-> "none"]
  ELSE IF \E v \in Reads(c, i) : ~Defined(n, v)
  THEN [ns |-> n, out |-> o, err |-> "NameError"]
  ELSE IF ~HasColumns(c, i, n)
  THEN [ns |-> n, out |-> o, err |-> "KeyError"]
  ELSE IF i = stop
  THEN [ns |-> Broken(c, i, n), out |-> o, err |-> "LibraryError"]
  ELSE Exec(c, i + 1, Stmt(c, i, n), o \o Prints(c, i), stop)

StopPoints(c) == {i \in 1..NStmts(c) : CanRaise(c, i)} \cup {NStmts(c) + 1}

RunCell(c) ==
  /\ Selected(c)
  /\ cursor' = cursor + 1
  /\ \E stop \in StopPoints(c) :
    LET r == Exec(c, 1, ns, << >>, stop) IN
      /\ ns' = r.ns
      /\ out' = r.out
      /\ err' = r.err
      /\ cwd' = cwd

\* A fresh kernel in a working directory that holds the data, the archive,
\* both or neither.
Init ==
  /\ cwd \in SUBSET {DirName, ZipName}
  /\ ns = [v \in Names |-> Undef]
  /\ out = << >>
  /\ err = "none"
  /\ cursor = 1

\* The user selects the cell just executed again, to re-execute it, after it
\* raised or printed the prompt that asks for exactly that (line 276).
Back ==
  /\ cursor > 1
  /\ err # "none" \/ out = << Prompt >>
  /\ cursor' = cursor - 1
  /\ UNCHANGED <<cwd, ns, out, err>>

\* Kernel restart: the namespace is lost, the working directory is not.
Restart ==
  /\ ns' = [v \in Names |-> Undef]
  /\ out' = << >>
  /\ err' = "none"
  /\ cursor' = 1
  /\ cwd' = cwd

Next ==
  \/ LoadData
  \/ \E c \in Cells : RunCell(c)
  \/ Back
  \/ Restart

Spec == Init /\ [][Next]_vars

(***************************************************************************)
(* The standardizer (lines 596-598).                                        *)
(***************************************************************************)

\* C9: the scaler state is computed exactly once, from training rows only,
\* and no transform call changes it: whenever a scaler is bound it has been
\* fitted once, on the training rows, and the scaled training and test
\* predictors present were both made by that training-fitted scaler, which
\* is still in that state after the transform calls.
ScalerFittedOnceOnTrainingRows ==
  /\ Defined(ns, "scaler") =>
       /\ ns["scaler"].fitOn = "train"
       /\ ns["scaler"].fits = 1
  /\ Defined(ns, "X_train_scaled") =>
       /\ Defined(ns, "scaler")
       /\ ns["X_train_scaled"].rows = "train"
       /\ ns["X_train_scaled"].by = "train"
       /\ ns["scaler"] = ScalerFit(ns["X_train"])
  /\ Defined(ns, "X_test_scaled") =>
       /\ Defined(ns, "scaler")
       /\ ns["X_test_scaled"].rows = "test"
       /\ ns["X_test_scaled"].by = "train"
       /\ ns["scaler"] = ScalerFit(ns["X_train"])

\* C9's case: the scale cell has just run to its end, so the scaler was
\* fitted and both transform calls were made.
TestPredictorsTransformed ==
  /\ Selected("regr")
  /\ err = "none"
  /\ Defined(ns, "scaler")
  /\ Defined(ns, "X_train_scaled")
  /\ Defined(ns, "X_test_scaled")

(***************************************************************************)
(* What reaches the regression-kriging model (lines 636, 658, 678).         *)
(***************************************************************************)

\* C17: the fitted regression-kriging model depends on training records
\* only, and the exploratory variogram of the full point set is used by
\* neither fit nor predict: the model is constructed with a variogram name,
\* not with the exploratory model; every array handed to a fit that
\* returned holds training rows, the predictors scaled by the scaler fitted
\* on training rows; and a prediction is made from that model, the test
\* predictors scaled by the same training-fitted scaler, and the test
\* coordinates.
ModelFittedFromTrainingRowsOnly ==
  /\ Defined(ns, "m_rk") =>
       /\ ns["m_rk"].variogram = NamedVariogram
       /\ ns["m_rk"].state = "fit returned" =>
            /\ ns["m_rk"].p.rows = "train"
            /\ ns["m_rk"].p.by = "train"
            /\ ns["m_rk"].x = "train"
            /\ ns["m_rk"].y = "train"
  /\ Defined(ns, "y_rk_test_preds") =>
       /\ ns["y_rk_test_preds"].model = "m_rk"
       /\ ns["y_rk_test_preds"].p.rows = "test"
       /\ ns["y_rk_test_preds"].p.by = "train"
       /\ ns["y_rk_test_preds"].x = "test"

\* C17's case: the exploratory variogram of the full point set exists and a
\* model was fitted to it, and after that fit and predict both returned.
FittedAndPredictedBesideExploratoryVariogram ==
  /\ Selected("eval")
  /\ err = "none"
  /\ Defined(ns, "emp_v") /\ ns["emp_v"].rows = "all"
  /\ Defined(ns, "exp") /\ ns["exp"].fit = ns["emp_v"]
  /\ Defined(ns, "m_rk") /\ ns["m_rk"].state = "fit returned"
  /\ Defined(ns, "y_rk_test_preds")
  /\ ns["y_rk_test_preds"].fitted = "fit returned"

(***************************************************************************)
(* The load-data cell (lines 269-280).                                      *)
(***************************************************************************)

\* C21: every execution of the load-data cell does this: with the data-geoml
\* directory already in the working directory, nothing is downloaded or
\* unzipped and nothing is printed; with it absent, "Data download OK" is
\* printed only if the directory is in the working directory afterwards and
\* the retry prompt is printed otherwise; DATA_PATH is bound to the working
\* directory in every case.
LoadDataReportsTheDirectory ==
  [][LoadData =>
       /\ DirName \in cwd => (cwd' = cwd /\ out' = << >>)
       /\ DirName \notin cwd =>
            /\ out' \in { << DownloadOK >>, << Prompt >> }
            /\ out' = << DownloadOK >> => DirName \in cwd'
            /\ DirName \notin cwd' => out' = << Prompt >>
       /\ ns'["DATA_PATH"] = [k |-> "path", of |-> "cwd"]]_vars

====
